---- MODULE Spec2Model ----
(***************************************************************************)
(* Model of BatchPdfConv.py: the batch runner that discovers PDF files     *)
(* under docs_import, skips the ones the CSV record store marks as         *)
(* success, and converts the others with a bounded retry loop, rewriting   *)
(* the store after every attempt.                                          *)
(***************************************************************************)
EXTENDS Integers, Sequences, FiniteSets, TLC

VARIABLES
    apiKey,           \* value of os.getenv("MISTRAL_API_KEY")
    docDirExists,     \* os.path.isdir(DOC_DIR)
    tree,             \* the files below DOC_DIR
    mode,             \* per file: whether its conversion can fail
    exportDirExists,  \* os.path.exists(EXPORT_DIR)
    dbExists,         \* os.path.exists(DB_CSV)
    dbRows,           \* the data rows of DB_CSV, in file order
    mdFiles,          \* the markdown files below EXPORT_DIR
    docxFiles,        \* the docx files below EXPORT_DIR
    pc,               \* position of the process
    exitCode,         \* exit status of the process, -1 while it runs
    processed,        \* main: processed
    all_files,        \* main: all_files
    to_do,            \* main: to_do
    idx,              \* main: idx of the for loop
    attempts,         \* main: attempts
    backoff,          \* main: backoff
    success,          \* main: success
    converted_count,  \* main: converted_count
    error_msg,        \* main: error_msg
    run,              \* number of the current run of the program
    loadedRows,       \* history: the rows of DB_CSV when load_processed read it
    attemptsMade,     \* history: calls of convert_pdf_to_markdown per file, this run
    upserts,          \* history: calls of update_db, this run
    pauses,           \* history: the time.sleep calls of the current file, in order
    lastOutcome,      \* history: how the last convert_pdf_to_markdown call of the current file ended
    recorded,         \* history: the files whose success record update_db has written
    upd               \* per process: the call of update_db it is in

vars == <<apiKey, docDirExists, tree, mode, exportDirExists,
          dbExists, dbRows, mdFiles, docxFiles, pc, exitCode, processed,
          all_files, to_do, idx, attempts, backoff, success, converted_count,
          error_msg, run, loadedRows, attemptsMade, upserts, pauses, lastOutcome,
          recorded, upd>>

envVars == <<apiKey, docDirExists, tree, mode>>
fsVars == <<exportDirExists, dbExists, dbRows, mdFiles, docxFiles>>
loopVars == <<idx, attempts, backoff, success, converted_count, error_msg>>
mainVars == <<processed, all_files, to_do>>
histVars == <<loadedRows, attemptsMade, upserts, pauses, lastOutcome>>

(***************************************************************************)
(* Bounds of the model.                                                    *)
(***************************************************************************)
MaxFiles == 2
MaxRuns == 2

(***************************************************************************)
(* Configuration of the program.                                           *)
(***************************************************************************)
DOC_DIR == "docs_import"
EXPORT_DIR == "docs_exports"
MAX_RETRIES == 5
INITIAL_BACKOFF == 1
SUCCESS_PAUSE == 3
FIELDNAMES == <<"filename", "status", "attempts", "error">>

(***************************************************************************)
(* The files a tree is made of: a directory below DOC_DIR ("" is DOC_DIR   *)
(* itself), and a file name in two parts.                                  *)
(***************************************************************************)
Entry(d, s, e) == [dir |-> d, stem |-> s, ext |-> e]

Universe ==
    { Entry("", "a", "pdf"), Entry("", "b", "PDF"),
      Entry("s1", "x", "pdf"), Entry("s2", "x", "pdf"),
      Entry("", "n", "txt") }

\* str.lower() on the extensions of the universe
Lower(s) == IF s = "PDF" THEN "pdf" ELSE s

FileName(e) == e.stem \o "." \o e.ext

\* file.lower().endswith(".pdf")
IsPdf(e) == Lower(e.ext) = "pdf"

\* os.path.join
PathJoin(a, b) == IF a = "" THEN b ELSE a \o "/" \o b

\* Mutant of RelPath: the directory is dropped, the bare file name is kept.
RelPath_NameOnly(e) == FileName(e)

\* os.path.relpath(os.path.join(root, file), DOC_DIR)
RelPath(e) == PathJoin(e.dir, FileName(e))

PdfEntries(t) == { e \in t : IsPdf(e) }
PdfPaths(t) == { RelPath(e) : e \in PdfEntries(t) }
AllPaths == PdfPaths(Universe)

EntryOf(p) == CHOOSE e \in Universe : RelPath(e) = p

\* pdf_filename.rsplit(".", 1)[0]
RSplitStem(p) == PathJoin(EntryOf(p).dir, EntryOf(p).stem)

\* os.path.join(EXPORT_DIR, pdf_filename.rsplit(".", 1)[0] + ".md")
OutputPath(p) == PathJoin(EXPORT_DIR, RSplitStem(p) \o ".md")

\* os.path.join(EXPORT_DIR, pdf_filename.rsplit(".", 1)[0] + ".docx")
DocxPath(p) == PathJoin(EXPORT_DIR, RSplitStem(p) \o ".docx")

OutputPaths == { OutputPath(p) : p \in AllPaths }

\* The orders in which os.walk can list the PDF files of a tree: DOC_DIR
\* first, then each subdirectory, the files of one directory together.
WalkOrders(t) ==
    LET S == PdfEntries(t)
        n == Cardinality(S)
    IN  { [i \in 1..n |-> RelPath(s[i])] :
            s \in { q \in [1..n -> S] :
                      /\ \A i, j \in 1..n : i # j => q[i] # q[j]
                      /\ \A i, j \in 1..n :
                            i < j => ~(q[i].dir # "" /\ q[j].dir = "")
                      /\ \A i, j, k \in 1..n :
                            (i < k /\ k < j /\ q[i].dir = q[j].dir)
                                => q[k].dir = q[i].dir } }

(***************************************************************************)
(* The OCR service and its responses.                                      *)
(***************************************************************************)
Page(i, text) == [index |-> i, markdown |-> text]

\* response.pages of client.ocr.process for each document of the universe
ServicePages(p) ==
    CASE p = "a.pdf"    -> <<Page(0, "hello")>>
      [] p = "b.PDF"    -> <<>>
      [] p = "s1/x.pdf" -> <<Page(0, "first"), Page(1, "second")>>
      [] OTHER          -> <<Page(0, "scan")>>

\* "ok": the document is readable, the service answers and the markdown file
\* is writable; "fail": the service raises on every call; "flaky": every
\* step may fail or succeed, call by call.
Modes == {"ok", "fail", "flaky"}

\* The ways the conversions of a set of documents can behave.  The model is
\* bounded to one document at most whose steps fail and succeed call by
\* call; the others convert always or fail always.
ModesOf(paths) ==
    { m \in [paths -> Modes] :
        \A p, q \in paths : (m[p] = "flaky" /\ m[q] = "flaky") => p = q }

RECURSIVE Concat(_)
Concat(chunks) ==
    IF chunks = <<>> THEN ""
    ELSE Head(chunks) \o Concat(Tail(chunks))

\* Mutant of MarkdownChunks: the heading carries the 0-based index.
RECURSIVE MarkdownChunks_ZeroBased(_)
MarkdownChunks_ZeroBased(ps) ==
    IF ps = <<>> THEN <<>>
    ELSE <<"## Page " \o ToString(Head(ps).index) \o "\n\n",
           Head(ps).markdown \o "\n\n">> \o MarkdownChunks_ZeroBased(Tail(ps))

\* the strings convert_pdf_to_markdown writes to md_file, one per write call
RECURSIVE MarkdownChunks(_)
MarkdownChunks(ps) ==
    IF ps = <<>> THEN <<>>
    ELSE <<"## Page " \o ToString(Head(ps).index + 1) \o "\n\n",
           Head(ps).markdown \o "\n\n">> \o MarkdownChunks(Tail(ps))

RenderMarkdown(ps) == Concat(MarkdownChunks(ps))

\* what is left in the file when a write call fails
PartialMarkdown(ps) ==
    { Concat(SubSeq(MarkdownChunks(ps), 1, k)) :
        k \in 0..(Len(MarkdownChunks(ps)) - 1) }

NoFile == [exists |-> FALSE, data |-> ""]
File(d) == [exists |-> TRUE, data |-> d]

(***************************************************************************)
(* The record store.                                                       *)
(***************************************************************************)
\* csv.DictWriter.writerow: every field is written as str(field)
FormatRecord(record) ==
    [filename |-> record.filename,
     status   |-> record.status,
     attempts |-> ToString(record.attempts),
     error    |-> record.error]

\* the for loop of update_db over the rows read from DB_CSV
RECURSIVE ReplaceRows(_, _)
ReplaceRows(rows, record) ==
    IF rows = <<>> THEN <<>>
    ELSE IF Head(rows).filename = record.filename
         THEN <<FormatRecord(record)>> \o ReplaceRows(Tail(rows), record)
         ELSE <<Head(rows)>> \o ReplaceRows(Tail(rows), record)

HasRow(rows, name) == \E i \in 1..Len(rows) : rows[i].filename = name

\* Mutants of UpdateDb: the record always goes to the end of the file; the
\* record is appended whether or not its filename was found.
UpdateDb_MoveToEnd(exists, rows, record) ==
    LET old == IF exists THEN rows ELSE <<>>
    IN  Append(SelectSeq(old, LAMBDA r : r.filename # record.filename),
               FormatRecord(record))

UpdateDb_AlwaysAppend(exists, rows, record) ==
    LET old == IF exists THEN rows ELSE <<>>
    IN  Append(old, FormatRecord(record))

\* Mutant of UpdateDb: the file is rewritten with the record alone.
UpdateDb_OnlyRecord(exists, rows, record) == <<FormatRecord(record)>>

\* update_db: the rows of DB_CSV after the call
UpdateDb(exists, rows, record) ==
    LET old == IF exists THEN rows ELSE <<>>
        found == HasRow(old, record.filename)
        records == ReplaceRows(old, record)
    IN  IF found THEN records ELSE Append(records, FormatRecord(record))

\* The processes that call update_db: the runner, and two more for the
\* store shared by several writers.
Writers == {"main", "w1", "w2"}

NoRecord == [filename |-> "", status |-> "", attempts |-> 0, error |-> ""]

\* not in update_db
Idle == [at |-> "idle", rec |-> NoRecord, records |-> <<>>, ret |-> "", alone |-> TRUE]

\* Mutant of LoadRows: the mapping is keyed by the status column.
RECURSIVE LoadRows_KeyByStatus(_, _)
LoadRows_KeyByStatus(rows, acc) ==
    IF rows = <<>> THEN acc
    ELSE LoadRows_KeyByStatus(Tail(rows),
                  [n \in DOMAIN acc \cup {Head(rows).status} |->
                      IF n = Head(rows).status THEN Head(rows) ELSE acc[n]])

\* load_processed: a later row of a filename replaces an earlier one
RECURSIVE LoadRows(_, _)
LoadRows(rows, acc) ==
    IF rows = <<>> THEN acc
    ELSE LoadRows(Tail(rows),
                  [n \in DOMAIN acc \cup {Head(rows).filename} |->
                      IF n = Head(rows).filename THEN Head(rows) ELSE acc[n]])

Empty == [n \in {} |-> n]

LoadProcessed(exists, rows) == IF exists THEN LoadRows(rows, Empty) ELSE Empty

\* processed.get(f, {}).get("status")
NoStatus == "<None>"
StatusOf(proc, f) == IF f \in DOMAIN proc THEN proc[f].status ELSE NoStatus

\* Mutants of ToDo: the store is not consulted; the files recorded as error
\* are skipped instead of those recorded as success; every recorded file is
\* skipped.
ToDo_IgnoreStore(files, proc) == files

ToDo_SkipErrors(files, proc) ==
    SelectSeq(files, LAMBDA f : StatusOf(proc, f) # "error")

ToDo_SkipRecorded(files, proc) == SelectSeq(files, LAMBDA f : f \notin DOMAIN proc)

\* [f for f in all_files if processed.get(f, {}).get("status") != "success"]
ToDo(files, proc) == SelectSeq(files, LAMBDA f : StatusOf(proc, f) # "success")


(***************************************************************************)
(* The environment of a run.                                               *)
(***************************************************************************)
Unset == [set |-> FALSE, value |-> ""]
EnvValue(v) == [set |-> TRUE, value |-> v]
ApiKeys == { Unset, EnvValue(""), EnvValue("key") }

\* Mutant of Falsy: the test is inverted.
Falsy_Inverted(k) == k.set /\ k.value # ""

\* not API_KEY
Falsy(k) == ~k.set \/ k.value = ""

Trees == { t \in SUBSET Universe : Cardinality(t) <= MaxFiles }

ENCODE_ERROR == "PDF encoding failed."
SERVICE_ERROR == "ocr request failed"
WRITE_ERROR == "cannot write markdown file"

Init ==
    /\ apiKey \in ApiKeys
    /\ docDirExists \in BOOLEAN
    /\ tree \in Trees
    /\ ~docDirExists => tree = {}
    /\ mode \in ModesOf(PdfPaths(tree))
    /\ exportDirExists \in BOOLEAN
    /\ dbExists \in BOOLEAN
    /\ dbRows = <<>>
    /\ mdFiles = [o \in OutputPaths |-> NoFile]
    /\ docxFiles = {}
    /\ pc = "boot"
    /\ exitCode = -1
    /\ processed = Empty
    /\ all_files = <<>>
    /\ to_do = <<>>
    /\ idx = 0
    /\ attempts = 0
    /\ backoff = INITIAL_BACKOFF
    /\ success = FALSE
    /\ converted_count = 0
    /\ error_msg = ""
    /\ run = 1
    /\ loadedRows = <<>>
    /\ attemptsMade = [p \in AllPaths |-> 0]
    /\ upserts = 0
    /\ pauses = <<>>
    /\ lastOutcome = "none"
    /\ recorded = {}
    /\ upd = [w \in Writers |-> Idle]

(***************************************************************************)
(* Module level, lines 33-38: the credential check.                        *)
(***************************************************************************)
Startup ==
    /\ pc = "boot"
    /\ IF Falsy(apiKey)
       THEN /\ pc' = "exited"
            /\ exitCode' = 1
       ELSE /\ pc' = "main"
            /\ UNCHANGED exitCode
    /\ UNCHANGED <<envVars, fsVars, mainVars, loopVars, run, histVars>>
    /\ UNCHANGED <<recorded, upd>>

(***************************************************************************)
(* main, lines 160-173: ensure_export_directory, load_processed,           *)
(* get_pdf_files and the work set.                                         *)
(***************************************************************************)
MainStart ==
    /\ pc = "main"
    /\ exportDirExists' = TRUE
    /\ processed' = LoadProcessed(dbExists, dbRows)
    /\ loadedRows' = IF dbExists THEN dbRows ELSE <<>>
    /\ IF ~docDirExists
       THEN \* get_pdf_files, lines 87-92
            /\ docDirExists' = TRUE
            /\ pc' = "exited"
            /\ exitCode' = 1
            /\ UNCHANGED <<all_files, to_do, idx, converted_count>>
       ELSE /\ \E files \in WalkOrders(tree) :
                  /\ all_files' = files
                  /\ to_do' = ToDo(files, processed')
            /\ converted_count' = 0
            /\ idx' = 1
            /\ pc' = "for"
            /\ UNCHANGED <<docDirExists, exitCode>>
    /\ UNCHANGED <<apiKey, tree, mode, dbExists, dbRows, mdFiles,
                   docxFiles, attempts, backoff, success, error_msg, run,
                   attemptsMade, upserts, pauses, lastOutcome>>
    /\ UNCHANGED <<recorded, upd>>

(***************************************************************************)
(* main, lines 174-178 and 217-220: the head of the for loop, and the      *)
(* summary when the work set is exhausted.                                 *)
(***************************************************************************)
ForNext ==
    /\ pc = "for"
    /\ IF idx <= Len(to_do)
       THEN /\ attempts' = 0
            /\ backoff' = INITIAL_BACKOFF
            /\ success' = FALSE
            /\ pauses' = <<>>
            /\ lastOutcome' = "none"
            /\ pc' = "while"
            /\ UNCHANGED exitCode
       ELSE /\ pc' = "done"
            /\ exitCode' = 0
            /\ UNCHANGED <<attempts, backoff, success, pauses, lastOutcome>>
    /\ UNCHANGED <<envVars, fsVars, mainVars, idx, converted_count, error_msg,
                   run, loadedRows, attemptsMade, upserts>>
    /\ UNCHANGED <<recorded, upd>>

(***************************************************************************)
(* main, lines 180-181 and 214-215: the condition of the while loop.       *)
(***************************************************************************)
\* Mutant of ShouldAttempt: the bound is off by one.
ShouldAttempt_OffByOne(n, ok) == n <= MAX_RETRIES /\ ~ok

\* Mutant of ShouldAttempt: the loop has no bound on the attempts.
ShouldAttempt_NoBound(n, ok) == ~ok

\* Mutant of ShouldAttempt: the loop gives a file up after its first failure.
ShouldAttempt_GiveUpEarly(n, ok) == n < 1 /\ ~ok

\* line 180: attempts < MAX_RETRIES and not success
ShouldAttempt(n, ok) == n < MAX_RETRIES /\ ~ok

WhileCheck ==
    /\ pc = "while"
    /\ IF ShouldAttempt(attempts, success)
       THEN /\ attempts' = attempts + 1
            /\ pc' = "try"
            /\ UNCHANGED idx
       ELSE /\ idx' = idx + 1
            /\ pc' = "for"
            /\ UNCHANGED attempts
    /\ UNCHANGED <<envVars, fsVars, mainVars, backoff, success,
                   converted_count, error_msg, exitCode, run, histVars>>
    /\ UNCHANGED <<recorded, upd>>

pdf == to_do[idx]

(***************************************************************************)
(* convert_pdf_to_markdown, lines 114-156, called at line 183.             *)
(***************************************************************************)
ConvertRaises(msg, outcome) ==
    /\ error_msg' = msg
    /\ lastOutcome' = outcome
    /\ pc' = "except"

\* lines 117-119: encode_pdf returns None
EncodeFails ==
    /\ mode[pdf] = "flaky"
    /\ ConvertRaises(ENCODE_ERROR, "encode_failed")
    /\ UNCHANGED <<mdFiles, docxFiles>>

\* lines 122-129: client.ocr.process raises
ServiceFails ==
    /\ mode[pdf] \in {"fail", "flaky"}
    /\ ConvertRaises(SERVICE_ERROR, "service_failed")
    /\ UNCHANGED <<mdFiles, docxFiles>>

\* Mutant of WriteFails: the failure of the write is swallowed and the call
\* returns.
WriteFails_Swallowed ==
    /\ mode[pdf] = "flaky"
    /\ \/ UNCHANGED mdFiles
       \/ \E part \in PartialMarkdown(ServicePages(pdf)) :
             mdFiles' = [mdFiles EXCEPT ![OutputPath(pdf)] = File(part)]
    /\ lastOutcome' = "write_failed"
    /\ pc' = "record"
    /\ UNCHANGED <<error_msg, docxFiles>>

\* lines 132-141: os.makedirs, open or md_file.write raises
WriteFails ==
    /\ mode[pdf] = "flaky"
    /\ \/ UNCHANGED mdFiles
       \/ \E part \in PartialMarkdown(ServicePages(pdf)) :
             mdFiles' = [mdFiles EXCEPT ![OutputPath(pdf)] = File(part)]
    /\ ConvertRaises(WRITE_ERROR, "write_failed")
    /\ UNCHANGED docxFiles

\* Mutant of WriteSucceeds: a failure of pypandoc is not caught.
WriteSucceeds_DocxRaises ==
    /\ mode[pdf] \in {"ok", "flaky"}
    /\ mdFiles' = [mdFiles EXCEPT
                      ![OutputPath(pdf)] = File(RenderMarkdown(ServicePages(pdf)))]
    /\ \/ /\ docxFiles' = docxFiles \cup {DocxPath(pdf)}
          /\ lastOutcome' = "converted"
          /\ pc' = "record"
          /\ UNCHANGED error_msg
       \/ /\ UNCHANGED docxFiles
          /\ ConvertRaises("pandoc failed", "docx_failed")

\* lines 138-156: the markdown file is written, then pypandoc is tried
WriteSucceeds ==
    /\ mode[pdf] \in {"ok", "flaky"}
    /\ mdFiles' = [mdFiles EXCEPT
                      ![OutputPath(pdf)] = File(RenderMarkdown(ServicePages(pdf)))]
    /\ \/ /\ docxFiles' = docxFiles \cup {DocxPath(pdf)}
          /\ lastOutcome' = "converted"
       \/ /\ UNCHANGED docxFiles
          /\ lastOutcome' = "docx_failed"
    /\ pc' = "record"
    /\ UNCHANGED error_msg

Convert ==
    /\ pc = "try"
    /\ attemptsMade' = [attemptsMade EXCEPT ![pdf] = @ + 1]
    /\ \/ EncodeFails
       \/ ServiceFails
       \/ WriteFails
       \/ WriteSucceeds
    /\ UNCHANGED <<envVars, exportDirExists, dbExists, dbRows, mainVars, idx,
                   attempts, backoff, success, converted_count, exitCode, run,
                   loadedRows, upserts, pauses>>
    /\ UNCHANGED <<recorded, upd>>

(***************************************************************************)
(* main, lines 184-195: the attempt succeeded.                             *)
(***************************************************************************)
SuccessRecord(f, n) ==
    [filename |-> f, status |-> "success", attempts |-> n, error |-> ""]

RecordSuccess ==
    /\ pc = "record"
    /\ success' = TRUE
    /\ converted_count' = converted_count + 1
    /\ dbRows' = UpdateDb(dbExists, dbRows, SuccessRecord(pdf, attempts))
    /\ dbExists' = TRUE
    /\ upserts' = upserts + 1
    /\ pc' = "sleep"
    /\ UNCHANGED <<envVars, exportDirExists, mdFiles, docxFiles, mainVars, idx,
                   attempts, backoff, error_msg, exitCode, run, loadedRows,
                   attemptsMade, pauses, lastOutcome>>
    /\ recorded' = recorded \cup {pdf}
    /\ UNCHANGED upd

\* Mutant of SleepOk: the pause after a success is the current backoff delay.
SleepOk_Backoff ==
    /\ pc = "sleep"
    /\ pauses' = Append(pauses, backoff)
    /\ pc' = "while"
    /\ UNCHANGED <<envVars, fsVars, mainVars, loopVars, exitCode, run,
                   loadedRows, attemptsMade, upserts, lastOutcome>>
    /\ UNCHANGED <<recorded, upd>>

\* line 196: time.sleep(3)
SleepOk ==
    /\ pc = "sleep"
    /\ pauses' = Append(pauses, SUCCESS_PAUSE)
    /\ pc' = "while"
    /\ UNCHANGED <<envVars, fsVars, mainVars, loopVars, exitCode, run,
                   loadedRows, attemptsMade, upserts, lastOutcome>>
    /\ UNCHANGED <<recorded, upd>>

(***************************************************************************)
(* main, lines 197-212: the attempt raised.                                *)
(***************************************************************************)
\* Mutant of ErrorRecord: the record carries the count before the attempt.
ErrorRecord_StaleCount(f, n, msg) ==
    [filename |-> f, status |-> "error", attempts |-> n - 1, error |-> msg]

ErrorRecord(f, n, msg) ==
    [filename |-> f, status |-> "error", attempts |-> n, error |-> msg]

\* Mutant of RecordError: a failed attempt counts as a conversion.
RecordError_Counted ==
    /\ pc = "except"
    /\ dbRows' = UpdateDb(dbExists, dbRows, ErrorRecord(pdf, attempts, error_msg))
    /\ dbExists' = TRUE
    /\ upserts' = upserts + 1
    /\ converted_count' = converted_count + 1
    /\ pc' = IF attempts < MAX_RETRIES THEN "backoff" ELSE "while"
    /\ UNCHANGED <<envVars, exportDirExists, mdFiles, docxFiles, mainVars,
                   idx, attempts, backoff, success, error_msg, exitCode, run,
                   loadedRows, attemptsMade, pauses, lastOutcome>>
    /\ UNCHANGED <<recorded, upd>>

RecordError ==
    /\ pc = "except"
    /\ dbRows' = UpdateDb(dbExists, dbRows, ErrorRecord(pdf, attempts, error_msg))
    /\ dbExists' = TRUE
    /\ upserts' = upserts + 1
    /\ pc' = IF attempts < MAX_RETRIES THEN "backoff" ELSE "while"
    /\ UNCHANGED <<envVars, exportDirExists, mdFiles, docxFiles, mainVars,
                   loopVars, exitCode, run, loadedRows, attemptsMade, pauses,
                   lastOutcome>>
    /\ UNCHANGED <<recorded, upd>>

\* Mutant of NextBackoff: the delay grows by one instead of doubling.
NextBackoff_Linear(b) == b + 1

\* line 212: backoff *= 2
NextBackoff(b) == b * 2

\* lines 211-212: time.sleep(backoff); backoff *= 2
SleepBackoff ==
    /\ pc = "backoff"
    /\ pauses' = Append(pauses, backoff)
    /\ backoff' = NextBackoff(backoff)
    /\ pc' = "while"
    /\ UNCHANGED <<envVars, fsVars, mainVars, idx, attempts, success,
                   converted_count, error_msg, exitCode, run, loadedRows,
                   attemptsMade, upserts, lastOutcome>>
    /\ UNCHANGED <<recorded, upd>>

(***************************************************************************)
(* The operator: runs the program again after it ended, and puts files     *)
(* into the directory the program created.                                 *)
(***************************************************************************)
Restart ==
    /\ pc \in {"done", "exited"}
    /\ run < MaxRuns
    /\ run' = run + 1
    /\ pc' = "boot"
    /\ exitCode' = -1
    /\ processed' = Empty
    /\ all_files' = <<>>
    /\ to_do' = <<>>
    /\ idx' = 0
    /\ attempts' = 0
    /\ backoff' = INITIAL_BACKOFF
    /\ success' = FALSE
    /\ converted_count' = 0
    /\ error_msg' = ""
    /\ loadedRows' = <<>>
    /\ attemptsMade' = [p \in AllPaths |-> 0]
    /\ upserts' = 0
    /\ pauses' = <<>>
    /\ lastOutcome' = "none"
    /\ UNCHANGED <<envVars, fsVars>>
    /\ UNCHANGED <<recorded, upd>>

Populate ==
    /\ pc \in {"done", "exited"}
    /\ docDirExists
    /\ tree = {}
    /\ \E t \in Trees \ {{}} :
          /\ tree' = t
          /\ mode' \in ModesOf(PdfPaths(t))
    /\ UNCHANGED <<apiKey, docDirExists, fsVars, pc, exitCode, mainVars,
                   loopVars, run, histVars>>
    /\ UNCHANGED <<recorded, upd>>

Next ==
    \/ Startup
    \/ MainStart
    \/ ForNext
    \/ WhileCheck
    \/ Convert
    \/ RecordSuccess
    \/ SleepOk
    \/ RecordError
    \/ SleepBackoff
    \/ Restart
    \/ Populate

Spec == Init /\ [][Next]_vars

(***************************************************************************)
(* The program left to run: main is one thread, every call it makes        *)
(* returns or raises and every sleep ends, so a step of the program that   *)
(* is possible is taken.  Running the program again and filling the        *)
(* directory are up to the operator.                                       *)
(***************************************************************************)
Step ==
    \/ Startup
    \/ MainStart
    \/ ForNext
    \/ WhileCheck
    \/ Convert
    \/ RecordSuccess
    \/ SleepOk
    \/ RecordError
    \/ SleepBackoff

SpecFair == Spec /\ WF_vars(Step)

(***************************************************************************)
(* update_db, lines 61-82, one step per access to DB_CSV: the rows are     *)
(* read, the file is opened for writing, which empties it, and the rows    *)
(* are written when the file is closed.                                    *)
(***************************************************************************)
srcVars == <<envVars, exportDirExists, mdFiles, docxFiles>>

runVars == <<mainVars, loopVars, run, histVars>>

\* the process w is inside update_db
InUpdateDb(w) == IF w = "main" THEN pc = "update_db" ELSE pc = "shared"

\* the process w has read DB_CSV and has not yet written it back
MidCall(w) == upd[w].at \in {"read", "opened"}

\* lines 63-77: the rows are read and the record is put among them
ReadRows(w) ==
    /\ InUpdateDb(w)
    /\ upd[w].at = "called"
    /\ upd' = [v \in Writers |->
                 IF v = w
                 THEN [upd[w] EXCEPT
                          !.at = "read",
                          !.records = UpdateDb(dbExists, dbRows, upd[w].rec),
                          !.alone = \A u \in Writers \ {w} : ~MidCall(u)]
                 ELSE IF MidCall(v) THEN [upd[v] EXCEPT !.alone = FALSE]
                 ELSE upd[v]]
    /\ UNCHANGED <<srcVars, dbExists, dbRows, pc, exitCode, runVars, recorded>>

\* line 79: open(DB_CSV, "w") creates the file or cuts it to length zero
OpenForWrite(w) ==
    /\ InUpdateDb(w)
    /\ upd[w].at = "read"
    /\ dbExists' = TRUE
    /\ dbRows' = <<>>
    /\ upd' = [upd EXCEPT ![w].at = "opened"]
    /\ UNCHANGED <<srcVars, pc, exitCode, runVars, recorded>>

\* what DB_CSV holds after rows were written from its start: the rows, and
\* behind them what another process had written further than that
Overwrite(old, rows) == rows \o SubSeq(old, Len(rows) + 1, Len(old))

\* lines 80-82: the header and the rows are written from the start of the
\* file, and the file is closed
WriteRows(w) ==
    /\ InUpdateDb(w)
    /\ upd[w].at = "opened"
    /\ dbRows' = Overwrite(dbRows, upd[w].records)
    /\ upd' = [upd EXCEPT ![w].at = "returned"]
    /\ UNCHANGED <<srcVars, dbExists, pc, exitCode, runVars, recorded>>

\* the call of update_db at line w of main, for the record rec
Call(rec, ret) ==
    [Idle EXCEPT !.at = "called", !.rec = rec, !.ret = ret]

(***************************************************************************)
(* main with update_db step by step, and the process ended from outside.   *)
(***************************************************************************)
\* lines 184-186: success, the counter, and the call of update_db
CallSuccess ==
    /\ pc = "record"
    /\ success' = TRUE
    /\ converted_count' = converted_count + 1
    /\ upd' = [upd EXCEPT !["main"] = Call(SuccessRecord(pdf, attempts), "sleep")]
    /\ pc' = "update_db"
    /\ UNCHANGED <<srcVars, dbExists, dbRows, mainVars, idx, attempts, backoff,
                   error_msg, exitCode, run, histVars, recorded>>

\* lines 197-203: the call of update_db in the except clause
CallError ==
    /\ pc = "except"
    /\ upd' = [upd EXCEPT !["main"] =
                  Call(ErrorRecord(pdf, attempts, error_msg),
                       IF attempts < MAX_RETRIES THEN "backoff" ELSE "while")]
    /\ pc' = "update_db"
    /\ UNCHANGED <<srcVars, dbExists, dbRows, mainVars, loopVars, exitCode, run,
                   histVars, recorded>>

\* update_db returns to main
Return ==
    /\ pc = "update_db"
    /\ upd["main"].at = "returned"
    /\ pc' = upd["main"].ret
    /\ upserts' = upserts + 1
    /\ recorded' = IF upd["main"].rec.status = "success"
                   THEN recorded \cup {pdf} ELSE recorded
    /\ upd' = [upd EXCEPT !["main"] = Idle]
    /\ UNCHANGED <<srcVars, dbExists, dbRows, mainVars, loopVars, exitCode, run,
                   loadedRows, attemptsMade, pauses, lastOutcome>>

Prefixes(rows) == { SubSeq(rows, 1, k) : k \in 0..Len(rows) }

\* The process is ended from outside, at any point of a run, and what it
\* held in memory is gone.  Ended while DB_CSV is open for writing, the file
\* keeps the rows that had reached it; ended while convert_pdf_to_markdown
\* writes, the markdown file keeps the strings that had reached it.
Terminate ==
    /\ pc \in {"main", "for", "while", "try", "record", "sleep", "except",
               "backoff", "update_db"}
    /\ pc' = "exited"
    /\ exitCode' = -1
    /\ upd' = [upd EXCEPT !["main"] = Idle]
    /\ IF pc = "update_db" /\ upd["main"].at = "opened"
       THEN dbRows' \in Prefixes(upd["main"].records)
       ELSE UNCHANGED dbRows
    /\ IF pc = "try" /\ mode[pdf] # "fail"
       THEN \/ UNCHANGED mdFiles
            \/ \E part \in PartialMarkdown(ServicePages(pdf)) :
                  mdFiles' = [mdFiles EXCEPT ![OutputPath(pdf)] = File(part)]
       ELSE UNCHANGED mdFiles
    /\ processed' = Empty
    /\ all_files' = <<>>
    /\ to_do' = <<>>
    /\ idx' = 0
    /\ attempts' = 0
    /\ backoff' = INITIAL_BACKOFF
    /\ success' = FALSE
    /\ converted_count' = 0
    /\ error_msg' = ""
    /\ loadedRows' = <<>>
    /\ attemptsMade' = [p \in AllPaths |-> 0]
    /\ upserts' = 0
    /\ pauses' = <<>>
    /\ lastOutcome' = "none"
    /\ UNCHANGED <<envVars, exportDirExists, dbExists, docxFiles, run, recorded>>

NextInterrupted ==
    \/ Startup
    \/ MainStart
    \/ ForNext
    \/ WhileCheck
    \/ Convert
    \/ CallSuccess
    \/ CallError
    \/ ReadRows("main")
    \/ OpenForWrite("main")
    \/ WriteRows("main")
    \/ Return
    \/ SleepOk
    \/ SleepBackoff
    \/ Terminate
    \/ Restart

SpecInterrupted == Init /\ [][NextInterrupted]_vars

(***************************************************************************)
(* Two processes, each in one call of update_db on the same DB_CSV, for    *)
(* records of different files.                                             *)
(***************************************************************************)
SharedRecords ==
    { SuccessRecord(f, 1) : f \in AllPaths }
        \cup { ErrorRecord(f, k, SERVICE_ERROR) : f \in AllPaths, k \in {1, MAX_RETRIES} }

\* DB_CSV before the calls: no row, or the row of one file
SharedStores == {<<>>} \cup { <<FormatRecord(r)>> : r \in SharedRecords }

InitShared ==
    /\ apiKey = "key"
    /\ docDirExists = TRUE
    /\ tree = {}
    /\ mode = [p \in {} |-> "ok"]
    /\ exportDirExists = TRUE
    /\ dbExists \in BOOLEAN
    /\ dbRows \in SharedStores
    /\ ~dbExists => dbRows = <<>>
    /\ mdFiles = [o \in OutputPaths |-> NoFile]
    /\ docxFiles = {}
    /\ pc = "shared"
    /\ exitCode = -1
    /\ processed = Empty
    /\ all_files = <<>>
    /\ to_do = <<>>
    /\ idx = 0
    /\ attempts = 0
    /\ backoff = INITIAL_BACKOFF
    /\ success = FALSE
    /\ converted_count = 0
    /\ error_msg = ""
    /\ run = 1
    /\ loadedRows = <<>>
    /\ attemptsMade = [p \in AllPaths |-> 0]
    /\ upserts = 0
    /\ pauses = <<>>
    /\ lastOutcome = "none"
    /\ recorded = {}
    /\ \E r1, r2 \in SharedRecords :
          /\ r1.filename # r2.filename
          /\ upd = [w \in Writers |->
                      IF w = "w1" THEN Call(r1, "")
                      ELSE IF w = "w2" THEN Call(r2, "")
                      ELSE Idle]

NextShared ==
    \E w \in {"w1", "w2"} :
        \/ ReadRows(w)
        \/ OpenForWrite(w)
        \/ WriteRows(w)

SpecShared == InitShared /\ [][NextShared]_vars

(***************************************************************************)
(* Vocabulary of the properties.                                           *)
(***************************************************************************)
\* the run has discovered its files and computed its work set
InRun == pc \in {"for", "while", "try", "record", "sleep", "except", "backoff", "done"}

RowsOf(rows, f) == { rows[i] : i \in { j \in 1..Len(rows) : rows[j].filename = f } }

HasSuccess(rows, f) == \E r \in RowsOf(rows, f) : r.status = "success"

HasError(rows, f) == \E r \in RowsOf(rows, f) : r.status = "error"

Discovered(f) == \E i \in 1..Len(all_files) : all_files[i] = f

InWorkSet(f) == \E i \in 1..Len(to_do) : to_do[i] = f

\* the for loop has left the file at position j of the work set
SessionOver(j) == j < idx

IsPrefix(s, t) == Len(s) <= Len(t) /\ \A i \in 1..Len(s) : s[i] = t[i]

(***************************************************************************)
(* C1. Idempotent resume: when the store read at the start of a run holds  *)
(* a success record for every discovered file, the run calls               *)
(* convert_pdf_to_markdown for no file, calls update_db not once, and the  *)
(* store keeps the rows it had.                                            *)
(***************************************************************************)
AllDiscoveredSucceeded ==
    \A i \in 1..Len(all_files) : HasSuccess(loadedRows, all_files[i])

C1_IdempotentResume ==
    (InRun /\ AllDiscoveredSucceeded) =>
        /\ \A f \in AllPaths : attemptsMade[f] = 0
        /\ upserts = 0
        /\ dbRows = loadedRows

C1_Witness ==
    /\ pc = "done"
    /\ Len(all_files) = 2
    /\ AllDiscoveredSucceeded
    /\ upserts = 0

(***************************************************************************)
(* C2. Work set: a file is attempted in a run if and only if it is         *)
(* discovered and the store read at the start of the run has no success    *)
(* record for it.  No other file is ever attempted; when the run is done   *)
(* each such file has been attempted.                                      *)
(***************************************************************************)
Eligible(f) == Discovered(f) /\ ~HasSuccess(loadedRows, f)

C2_WorkSet ==
    InRun =>
        \A f \in AllPaths :
            /\ attemptsMade[f] > 0 => Eligible(f)
            /\ (pc = "done" /\ Eligible(f)) => attemptsMade[f] > 0

C2_Witness ==
    /\ pc = "done"
    /\ \E f, g \in AllPaths :
          /\ HasError(loadedRows, f) /\ attemptsMade[f] > 0
          /\ Discovered(g) /\ HasSuccess(loadedRows, g) /\ attemptsMade[g] = 0

(***************************************************************************)
(* C3. Attempt bound: the attempt counter, the attempts column of every    *)
(* row and the number of pipeline calls per file never exceed 5; a file    *)
(* that fails on every attempt is attempted exactly 5 times and its row    *)
(* then reads status = error, attempts = 5.                                *)
(***************************************************************************)
ExhaustedRow(f) ==
    /\ Cardinality(RowsOf(dbRows, f)) = 1
    /\ \A r \in RowsOf(dbRows, f) : r.status = "error" /\ r.attempts = "5"

C3_AttemptBound ==
    /\ attempts <= 5
    /\ \A i \in 1..Len(dbRows) : dbRows[i].attempts \in {"1", "2", "3", "4", "5"}
    /\ \A f \in AllPaths : attemptsMade[f] <= 5
    /\ InRun =>
          \A j \in 1..Len(to_do) :
              (SessionOver(j) /\ (mode[to_do[j]] = "fail" \/ ~HasSuccess(dbRows, to_do[j])))
                  => (attemptsMade[to_do[j]] = 5 /\ ExhaustedRow(to_do[j]))

C3_Witness ==
    /\ pc = "done"
    /\ \E j \in 1..Len(to_do) :
          /\ mode[to_do[j]] = "flaky"
          /\ attemptsMade[to_do[j]] = 5
          /\ ExhaustedRow(to_do[j])

(***************************************************************************)
(* C4. Backoff: the pauses between the attempts of a file are 1, 2, 4, 8   *)
(* in that order; before attempt k there have been k - 1 of them; a pause  *)
(* starts only when the row of the failed attempt is in the store; after   *)
(* the fifth failed attempt there is none; every file starts at 1.         *)
(***************************************************************************)
BackoffPauses ==
    IF success /\ pc # "sleep" /\ pauses # <<>>
    THEN SubSeq(pauses, 1, Len(pauses) - 1)
    ELSE pauses

C4_BackoffSequence ==
    /\ IsPrefix(BackoffPauses, <<1, 2, 4, 8>>)
    /\ pc = "try" => Len(pauses) = attempts - 1
    /\ pc = "backoff" =>
          /\ attempts < 5
          /\ Len(pauses) = attempts - 1
          /\ \A r \in RowsOf(dbRows, pdf) :
                r.status = "error" /\ r.attempts = ToString(attempts)
          /\ RowsOf(dbRows, pdf) # {}
    /\ (pc \in {"except", "while", "for", "done"} /\ ~success /\ attempts = 5)
          => pauses = <<1, 2, 4, 8>>
    /\ (pc = "while" /\ attempts = 0) => (backoff = 1 /\ pauses = <<>>)

C4_Witness ==
    /\ pc = "done"
    /\ Len(to_do) = 2
    /\ attemptsMade[to_do[1]] = 5
    /\ attemptsMade[to_do[2]] = 5
    /\ ~success
    /\ pauses = <<1, 2, 4, 8>>

(***************************************************************************)
(* C5. Upsert frame: a call of update_db for filename X leaves the rows of *)
(* every other filename as they were, in content and in relative order;    *)
(* when X had a row the new record stands where that row stood, otherwise  *)
(* it comes after all the rows there were.                                 *)
(***************************************************************************)
OtherRows(rows, X) == SelectSeq(rows, LAMBDA r : r.filename # X)

UpsertFrame(old, new, X) ==
    /\ OtherRows(new, X) = OtherRows(old, X)
    /\ IF RowsOf(old, X) # {}
       THEN /\ Len(new) = Len(old)
            /\ \A i \in 1..Len(old) : (old[i].filename = X) <=> (new[i].filename = X)
       ELSE /\ Len(new) = Len(old) + 1
            /\ new[Len(new)].filename = X

C5_UpsertFrame ==
    [][upserts' = upserts + 1 => UpsertFrame(dbRows, dbRows', pdf)]_vars

C5_Witness ==
    /\ pc \in {"sleep", "backoff"}
    /\ Len(loadedRows) = 2
    /\ Len(dbRows) = 2
    /\ dbRows[1].filename = pdf
    /\ dbRows[1] # loadedRows[1]
    /\ dbRows[2] = loadedRows[2]

(***************************************************************************)
(* C6. Key uniqueness: from an absent or empty store on, the store never   *)
(* holds two rows with one filename, and a filename that has a row keeps   *)
(* one: the set of filenames in the store only grows.                      *)
(***************************************************************************)
Keys(rows) == { rows[i].filename : i \in 1..Len(rows) }

UniqueKeys == \A i, j \in 1..Len(dbRows) : dbRows[i].filename = dbRows[j].filename => i = j

C6_KeyUniqueness ==
    /\ []UniqueKeys
    /\ [][Keys(dbRows) \subseteq Keys(dbRows')]_vars

C6_Witness ==
    /\ run = 2
    /\ upserts >= 2
    /\ Len(dbRows) = 2
    /\ Len(loadedRows) = 2

(***************************************************************************)
(* C7. Secondary conversion: when the markdown file of an attempt is       *)
(* written and the docx conversion fails, the attempt is a success: it is  *)
(* never handled as an error, the row of the file reads status = success   *)
(* with the number of that attempt, the file is not attempted again and    *)
(* converted_count counts it.                                              *)
(***************************************************************************)
\* the file of the session that ran last
SessionFile == IF pc \in {"for", "done"} THEN to_do[idx - 1] ELSE to_do[idx]

ConvertedInRun ==
    { j \in 1..Len(to_do) :
        /\ (j < idx \/ (j = idx /\ pc \in {"sleep", "while"}))
        /\ HasSuccess(dbRows, to_do[j]) }

C7_SecondaryIndependence ==
    /\ lastOutcome = "docx_failed" =>
          /\ pc \in {"record", "sleep", "while", "for", "done"}
          /\ pc # "record" =>
                /\ success
                /\ RowsOf(dbRows, SessionFile) =
                      { [filename |-> SessionFile, status |-> "success",
                         attempts |-> ToString(attempts), error |-> ""] }
                /\ attemptsMade[SessionFile] = attempts
                /\ converted_count = Cardinality(ConvertedInRun)
    /\ InRun =>
          \A j \in 1..Len(to_do) :
              (SessionOver(j) /\ HasSuccess(dbRows, to_do[j])) =>
                  \A r \in RowsOf(dbRows, to_do[j]) :
                      r.attempts = ToString(attemptsMade[to_do[j]])

C7_Witness ==
    /\ pc = "done"
    /\ lastOutcome = "docx_failed"
    /\ attempts = 2
    /\ converted_count = 2
    /\ DocxPath(SessionFile) \notin docxFiles

(***************************************************************************)
(* C8. Scenario: from an empty store, with the two files a and b, the      *)
(* conversion of a always succeeding with the one page (0, "hello") and    *)
(* the service always failing for b, a finished run leaves the markdown of *)
(* a as the heading of page 1 and the text, the store as a -> (success, 1) *)
(* and b -> (error, 5), and reports 1 success out of 2, in either order.   *)
(***************************************************************************)
ScenarioAB ==
    /\ Len(all_files) = 2
    /\ Discovered("a.pdf")
    /\ Discovered("b.PDF")
    /\ loadedRows = <<>>
    /\ mode["a.pdf"] = "ok"
    /\ mode["b.PDF"] = "fail"

C8_Scenario ==
    (pc = "done" /\ ScenarioAB) =>
        /\ mdFiles["docs_exports/a.md"] =
              [exists |-> TRUE, data |-> "## Page 1\n\nhello\n\n"]
        /\ Len(dbRows) = 2
        /\ RowsOf(dbRows, "a.pdf") =
              { [filename |-> "a.pdf", status |-> "success",
                 attempts |-> "1", error |-> ""] }
        /\ \A r \in RowsOf(dbRows, "b.PDF") : r.status = "error" /\ r.attempts = "5"
        /\ RowsOf(dbRows, "b.PDF") # {}
        /\ converted_count = 1
        /\ Len(to_do) = 2

C8_Witness ==
    /\ pc = "done"
    /\ ScenarioAB
    /\ all_files = <<"b.PDF", "a.pdf">>
    /\ converted_count = 1

(***************************************************************************)
(* C9. Fatal configuration: without credential the process never gets      *)
(* past the start; a missing input root ends the run in get_pdf_files.     *)
(* Either way the exit status is 1, no conversion was attempted and the    *)
(* store was not written; in the second case the input root exists, and    *)
(* is empty, when the process exits.                                       *)
(***************************************************************************)
CredentialAbsent == apiKey \in { Unset, EnvValue("") }

FatalExit ==
    /\ CredentialAbsent => pc \in {"boot", "exited"}
    /\ pc = "exited" =>
          /\ exitCode = 1
          /\ \A f \in AllPaths : attemptsMade[f] = 0
          /\ upserts = 0
          /\ to_do = <<>>
          /\ ~CredentialAbsent => docDirExists

FatalExitStep ==
    /\ (pc = "main" /\ ~docDirExists) => pc' = "exited"
    /\ (pc # "exited" /\ pc' = "exited") =>
          /\ dbRows' = dbRows
          /\ dbExists' = dbExists
          /\ mdFiles' = mdFiles
          /\ pc = "main" => (~docDirExists /\ docDirExists' /\ tree' = {})

C9_FatalConfiguration ==
    /\ []FatalExit
    /\ [][FatalExitStep]_vars

C9_Witness ==
    /\ pc = "exited"
    /\ ~CredentialAbsent
    /\ docDirExists
    /\ tree = {}
    /\ exitCode = 1

(***************************************************************************)
(* C10. Store key.  As claimed: the store keys by file name alone, so the  *)
(* two discovered files s1/x.pdf and s2/x.pdf share one record, and a      *)
(* success record for one keeps the other out of the work set of the next  *)
(* run.                                                                    *)
(***************************************************************************)
\* the run discovered exactly the two files named x.pdf
SameNameFiles ==
    /\ { Entry("s1", "x", "pdf"), Entry("s2", "x", "pdf") } \subseteq tree
    /\ Len(all_files) = 2

RowsNamed(rows, name) ==
    { rows[i] : i \in { j \in 1..Len(rows) :
                          rows[j].filename \in {name, "s1/" \o name, "s2/" \o name} } }

C10_SharedRecord ==
    (InRun /\ SameNameFiles) =>
        /\ Cardinality(RowsNamed(dbRows, "x.pdf")) <= 1
        /\ HasSuccess(loadedRows, "s1/x.pdf") => ~InWorkSet("s2/x.pdf")
        /\ HasSuccess(loadedRows, "s2/x.pdf") => ~InWorkSet("s1/x.pdf")

(***************************************************************************)
(* C10, amended.  The store keys by the path below the input root, the     *)
(* directory included: s1/x.pdf and s2/x.pdf have a record each.  A        *)
(* finished run leaves a row for each of them, an upsert for one leaves    *)
(* the row of the other as it was, and each is in the work set exactly     *)
(* when its own record is not a success.                                   *)
(***************************************************************************)
SeparateRecords ==
    (InRun /\ SameNameFiles) =>
        /\ InWorkSet("s1/x.pdf") <=> ~HasSuccess(loadedRows, "s1/x.pdf")
        /\ InWorkSet("s2/x.pdf") <=> ~HasSuccess(loadedRows, "s2/x.pdf")
        /\ Cardinality(RowsNamed(dbRows, "x.pdf")) <= 2
        /\ pc = "done" =>
              /\ Cardinality(RowsOf(dbRows, "s1/x.pdf")) = 1
              /\ Cardinality(RowsOf(dbRows, "s2/x.pdf")) = 1

SeparateUpsert ==
    (SameNameFiles /\ upserts' = upserts + 1) =>
        /\ pdf = "s1/x.pdf" => RowsOf(dbRows', "s2/x.pdf") = RowsOf(dbRows, "s2/x.pdf")
        /\ pdf = "s2/x.pdf" => RowsOf(dbRows', "s1/x.pdf") = RowsOf(dbRows, "s1/x.pdf")
        /\ pdf \in {"s1/x.pdf", "s2/x.pdf"}

C10_SeparateRecords ==
    /\ []SeparateRecords
    /\ [][SeparateUpsert]_vars

C10_Witness ==
    /\ run = 2
    /\ pc = "sleep"
    /\ SameNameFiles
    /\ HasSuccess(loadedRows, "s1/x.pdf")
    /\ HasError(loadedRows, "s2/x.pdf")
    /\ pdf = "s2/x.pdf"
    /\ HasSuccess(dbRows, "s1/x.pdf")
    /\ HasSuccess(dbRows, "s2/x.pdf")

(***************************************************************************)
(* C11. Resumability under termination from outside: when the process is   *)
(* ended at any point of a run, a rewrite of the store by update_db        *)
(* included, and the program is run again, every file whose success record *)
(* update_db had written is still recorded as success in the store the new *)
(* run reads, and is not in the work set of the new run.                   *)
(***************************************************************************)
C11_Resumable ==
    (pc = "for" /\ idx = 1) =>
        \A f \in recorded : HasSuccess(loadedRows, f) /\ ~InWorkSet(f)

(***************************************************************************)
(* C12. Per-attempt record: after attempt k of a file, during the pause    *)
(* that follows it and until the next attempt of the file has ended, the   *)
(* store holds one record of the file with attempts = k, status success    *)
(* and an empty error when the attempt succeeded, status error and the     *)
(* error text of the attempt when it failed; every success record of the   *)
(* store has an empty error field.                                         *)
(***************************************************************************)
\* the text of the exception the last call of convert_pdf_to_markdown raised
AttemptError ==
    CASE lastOutcome = "encode_failed"  -> ENCODE_ERROR
      [] lastOutcome = "service_failed" -> SERVICE_ERROR
      [] lastOutcome = "write_failed"   -> WRITE_ERROR
      [] OTHER                          -> ""

SuccessRow(f, k) ==
    [filename |-> f, status |-> "success", attempts |-> ToString(k), error |-> ""]

ErrorRow(f, k, msg) ==
    [filename |-> f, status |-> "error", attempts |-> ToString(k), error |-> msg]

C12_PerAttemptRecord ==
    /\ pc = "sleep" => RowsOf(dbRows, pdf) = {SuccessRow(pdf, attempts)}
    /\ pc = "backoff" => RowsOf(dbRows, pdf) = {ErrorRow(pdf, attempts, AttemptError)}
    /\ (pc = "while" /\ attempts >= 1) =>
          RowsOf(dbRows, pdf) = { IF success THEN SuccessRow(pdf, attempts)
                                  ELSE ErrorRow(pdf, attempts, AttemptError) }
    /\ (pc = "try" /\ attempts >= 2) =>
          RowsOf(dbRows, pdf) = {ErrorRow(pdf, attempts - 1, AttemptError)}
    /\ \A i \in 1..Len(dbRows) : dbRows[i].status = "success" => dbRows[i].error = ""

\* the third attempt of a file succeeded after two failures, and the store
\* holds its record
C12_Witness ==
    /\ pc = "sleep"
    /\ attempts = 3
    /\ RowsOf(dbRows, pdf) = {SuccessRow(pdf, 3)}

(***************************************************************************)
(* C13. Rate-limit pause: a successful attempt is followed by exactly one  *)
(* pause of 3 units, taken after the success record is in the store and    *)
(* before the next file's first attempt; it is the last pause of the       *)
(* file's session and has the same length after any number of failed       *)
(* attempts; a session that ends in exhausted failure has no pause of 3    *)
(* units.                                                                  *)
(***************************************************************************)
Threes(s) == Len(SelectSeq(s, LAMBDA d : d = 3))

\* the for loop has finished the session of a file and not yet begun the next
BetweenSessions == (pc = "for" /\ idx > 1) \/ (pc = "done" /\ Len(to_do) > 0)

C13_RateLimitPause ==
    /\ pc = "sleep" =>
          /\ RowsOf(dbRows, pdf) = {SuccessRow(pdf, attempts)}
          /\ Threes(pauses) = 0
          /\ Len(pauses) = attempts - 1
    /\ pc = "try" => (~success /\ Threes(pauses) = 0)
    /\ (pc = "while" /\ success) \/ (BetweenSessions /\ success) =>
          /\ Threes(pauses) = 1
          /\ Len(pauses) = attempts
          /\ pauses[Len(pauses)] = 3
    /\ (BetweenSessions /\ ~success) =>
          /\ attempts = MAX_RETRIES
          /\ Threes(pauses) = 0

\* a file succeeded at its third attempt, and its session is over
C13_Witness ==
    /\ pc = "for"
    /\ idx = 2
    /\ success
    /\ pauses = <<1, 2, 3>>

(***************************************************************************)
(* C14. Success counter consistency: every finished session of a run left  *)
(* its file either with a success record or with an error record of        *)
(* attempts = 5; the counter of the run equals the number of work-set      *)
(* files whose store record is success, in particular when the run ends,   *)
(* and never exceeds the size of the work set.                             *)
(***************************************************************************)
Terminal(f) ==
    \E k \in 1..MAX_RETRIES, msg \in {ENCODE_ERROR, SERVICE_ERROR, WRITE_ERROR} :
        \/ RowsOf(dbRows, f) = {SuccessRow(f, k)}
        \/ RowsOf(dbRows, f) = {ErrorRow(f, 5, msg)}

SucceededInWorkSet == { j \in 1..Len(to_do) : HasSuccess(dbRows, to_do[j]) }

C14_CounterConsistency ==
    InRun =>
        /\ \A j \in 1..Len(to_do) : SessionOver(j) => Terminal(to_do[j])
        /\ converted_count = Cardinality(SucceededInWorkSet)
        /\ converted_count <= Len(to_do)
        /\ pc = "done" => idx = Len(to_do) + 1

\* a run of two files ended with one success and one exhausted failure
C14_Witness ==
    /\ pc = "done"
    /\ Len(to_do) = 2
    /\ converted_count = 1
    /\ \E j \in 1..2 : HasError(dbRows, to_do[j])

(***************************************************************************)
(* C15. Upsert visibility: after update_db(record) has returned,           *)
(* load_processed maps record.filename to the record's status, its         *)
(* attempts (as the text the store holds for the number) and its error;    *)
(* the mapping a run loaded holds every row the store had; and while the   *)
(* backing file is absent the mapping load_processed returned is empty.    *)
(***************************************************************************)
\* the record main hands to update_db, as the store holds it
Upserted ==
    IF pc = "record" THEN SuccessRow(pdf, attempts)
    ELSE ErrorRow(pdf, attempts, error_msg)

Visible ==
    upserts' = upserts + 1 =>
        LET m == LoadProcessed(dbExists', dbRows')
        IN  /\ pdf \in DOMAIN m
            /\ m[pdf].status = Upserted.status
            /\ m[pdf].attempts = Upserted.attempts
            /\ m[pdf].error = Upserted.error

LoadedAll ==
    InRun =>
        /\ \A i \in 1..Len(loadedRows) :
              /\ loadedRows[i].filename \in DOMAIN processed
              /\ processed[loadedRows[i].filename] = loadedRows[i]
        /\ ~dbExists => processed = Empty

C15_UpsertVisibility == []LoadedAll /\ [][Visible]_vars

\* a second run has loaded the error record the first run wrote at its
\* fifth attempt of a file
C15_Witness ==
    /\ run = 2
    /\ pc = "for"
    /\ \E f \in DOMAIN processed :
          /\ processed[f].status = "error"
          /\ processed[f].attempts = "5"
          /\ processed[f].error # ""

(***************************************************************************)
(* C16. Strictly sequential resolution: the work set holds each file once; *)
(* a file behind the current one has had no attempt and no store write in  *)
(* the run; every file before the current one has reached a terminal       *)
(* state, in a single session whose attempts the record counts; and every  *)
(* attempt, pause and store write of a run is for the current file, all    *)
(* files before it being terminal.                                         *)
(***************************************************************************)
NotBegun(j) == j > idx \/ (j = idx /\ pc = "for")

Sequential ==
    InRun =>
        /\ \A i, j \in 1..Len(to_do) : i # j => to_do[i] # to_do[j]
        /\ \A j \in 1..Len(to_do) :
              /\ NotBegun(j) =>
                    /\ attemptsMade[to_do[j]] = 0
                    /\ RowsOf(dbRows, to_do[j]) = RowsOf(loadedRows, to_do[j])
              /\ SessionOver(j) =>
                    /\ Terminal(to_do[j])
                    /\ attemptsMade[to_do[j]] \in 1..MAX_RETRIES
                    /\ \A r \in RowsOf(dbRows, to_do[j]) :
                          r.attempts = ToString(attemptsMade[to_do[j]])

\* the step is an attempt, a store write or a pause for the file f
StepFor(f) ==
    \/ attemptsMade'[f] > attemptsMade[f]
    \/ RowsOf(dbRows', f) # RowsOf(dbRows, f)
    \/ (Len(pauses') > Len(pauses) /\ idx \in 1..Len(to_do) /\ f = pdf)

OneAtATime ==
    \A f \in AllPaths :
        StepFor(f) =>
            /\ pc \in {"try", "record", "except", "sleep", "backoff"}
            /\ f = pdf
            /\ \A j \in 1..(idx - 1) : Terminal(to_do[j])

C16_Sequential == []Sequential /\ [][OneAtATime]_vars

\* the second file of a work set is being attempted after the first one
\* failed five times
C16_Witness ==
    /\ pc = "try"
    /\ idx = 2
    /\ attemptsMade[to_do[1]] = 5
    /\ HasError(dbRows, to_do[1])

(***************************************************************************)
(* C17. Failure isolation and termination: a run that is left to run       *)
(* finishes; no file gets more than 5 attempts in a run; when the run has  *)
(* finished its loop every work-set file was attempted and has reached     *)
(* Success or ExhaustedFailure, whatever happened to the files before it;  *)
(* and a failed attempt is recorded and the loop goes on: the run does not *)
(* end with a failure status once the loop is entered.                     *)
(***************************************************************************)
AttemptsBounded == \A f \in AllPaths : attemptsMade[f] <= MAX_RETRIES

AllResolved ==
    pc = "done" =>
        \A j \in 1..Len(to_do) :
            /\ Terminal(to_do[j])
            /\ attemptsMade[to_do[j]] >= 1

Contained == InRun => exitCode = (IF pc = "done" THEN 0 ELSE -1)

C17_Termination ==
    /\ []AttemptsBounded
    /\ []AllResolved
    /\ []Contained
    /\ (pc = "boot") ~> (pc \in {"done", "exited"})
    /\ (pc = "except") ~> (pc \in {"backoff", "while"})

\* a run finished after its first file failed five times and its second
\* file was converted
C17_Witness ==
    /\ pc = "done"
    /\ Len(to_do) = 2
    /\ attemptsMade[to_do[1]] = 5
    /\ HasError(dbRows, to_do[1])
    /\ HasSuccess(dbRows, to_do[2])

(***************************************************************************)
(* C18. Concurrent writers race: update_db reads the store and writes it   *)
(* back in separate steps.  When the calls of two processes for different  *)
(* files do not overlap, both records are in the store after both calls    *)
(* returned, and so is the row the store had of any other file; when they  *)
(* overlap, both calls can return with the record of one of them missing   *)
(* (C18_Witness is such a state).                                          *)
(***************************************************************************)
BothReturned == upd["w1"].at = "returned" /\ upd["w2"].at = "returned"

\* the store holds the record the process w handed to update_db
Present(w) ==
    LET r == upd[w].rec
    IN  RowsOf(dbRows, r.filename) =
           {[filename |-> r.filename, status |-> r.status,
             attempts |-> ToString(r.attempts), error |-> r.error]}

OneAfterTheOther == upd["w1"].alone /\ upd["w2"].alone

C18_SequentialWriters ==
    (BothReturned /\ OneAfterTheOther) =>
        /\ Present("w1")
        /\ Present("w2")
        /\ Len(dbRows) \in {2, 3}

\* both calls have returned and the store holds no row of the file that
\* the first process recorded
C18_Witness ==
    /\ BothReturned
    /\ Present("w2")
    /\ ~HasRow(dbRows, upd["w1"].rec.filename)

(***************************************************************************)
(* C19. Success record implies output: in every state, those after the     *)
(* process was ended from outside and run again included, a file with a    *)
(* success record in the store has its markdown file fully written; and    *)
(* main hands a success record to update_db only for the file whose        *)
(* attempt has just written the markdown file in full, never after an      *)
(* attempt whose encoding, extraction or write failed.                     *)
(***************************************************************************)
FullyWritten(f) ==
    mdFiles[OutputPath(f)] = File(RenderMarkdown(ServicePages(f)))

RecordingSuccess == pc = "update_db" /\ upd["main"].rec.status = "success"

C19_SuccessImpliesOutput ==
    /\ \A f \in AllPaths : HasSuccess(dbRows, f) => FullyWritten(f)
    /\ RecordingSuccess =>
          /\ upd["main"].rec.filename = pdf
          /\ upd["main"].rec.attempts = attempts
          /\ lastOutcome \in {"converted", "docx_failed"}
          /\ FullyWritten(pdf)

\* a run after a termination: the store holds the success record of a file
\* whose markdown file is complete, next to a markdown file the ended
\* process left unfinished and unrecorded
C19_Witness ==
    /\ run = 2
    /\ pc = "for"
    /\ \E f, g \in AllPaths :
          /\ HasSuccess(dbRows, f)
          /\ FullyWritten(f)
          /\ mdFiles[OutputPath(g)].exists
          /\ ~FullyWritten(g)
          /\ ~HasRow(dbRows, g)

(***************************************************************************)
(* C20. Success is absorbing: with one runner that is not ended from       *)
(* outside, a file that has a success record in the store keeps that very  *)
(* record through every later step, attempts on other files and later      *)
(* runs included, so no error record is written over it; and every file    *)
(* whose success the runner has recorded has a success record.             *)
(***************************************************************************)
KeepsSuccess ==
    \A f \in AllPaths :
        HasSuccess(dbRows, f) => RowsOf(dbRows', f) = RowsOf(dbRows, f)

RecordedStay == \A f \in recorded : HasSuccess(dbRows, f)

C20_SuccessAbsorbing == []RecordedStay /\ [][KeepsSuccess]_vars

\* a second run has retried another file and ended, and the file that
\* succeeded in the first run still has its success record
C20_Witness ==
    /\ run = 2
    /\ pc = "done"
    /\ upserts >= 1
    /\ \E f \in recorded : HasSuccess(loadedRows, f) /\ HasSuccess(dbRows, f)

====
